---- MODULE Spec2Model ----
(***************************************************************************)
(* The wait-for-status helpers of CloudAPISDK (src/api.ts, lines 312-426). *)
(*                                                                         *)
(* Every helper is an async function: it runs synchronously from one await *)
(* to the next, so one action of the model is one resumption of a helper   *)
(* (a pending get... or sleep settling) together with everything the code  *)
(* does up to its next await or its return.                                *)
(***************************************************************************)
EXTENDS Integers, Sequences, FiniteSets, TLC

\* Largest timeoutInSeconds and sleepTimeInSeconds a caller passes.
MaxTimeout == 2
MaxInterval == 2
\* Largest number of databases listed under a subscription.
MaxDatabases == 2
\* With sleepTimeInSeconds = 0 the time passed never grows and a loop may run
\* for ever: the model follows such a loop up to this many fetches.
ZeroIntervalFetches == 3

\* Invocations running on the same CloudAPISDK instance.
Calls == {1, 2}
\* Slot <<c, 0>> holds the locals of the helper invocation c itself; slot
\* <<c, i>>, i >= 1, those of the waitForDatabaseStatus that the invocation c
\* of waitForSubscriptionDatabasesStatus runs for the i-th listed database.
Slots == Calls \X (0..MaxDatabases)

Undefined == "undefined"
\* What the remote service may report as a status (any string may appear).
Statuses == {"pending", "active", "error", "failed", "404", Undefined}
ExpectedStatuses == {"active", "404"}
TransportErrors == {"E401", "E500"}
ReferenceError == "ReferenceError"
DatabaseIds == 1..MaxDatabases

\* The JavaScript value undefined where a resource is expected, and the
\* resource object a fetch resolves with.  rev tells the objects of different
\* fetches apart (the opaque passthrough data of the response).
NoResource == [present |-> FALSE, status |-> Undefined, rev |-> 0]
Resource(st, n) == [present |-> TRUE, status |-> st, rev |-> n]

VARIABLES
    statusResolves, \* whether the name status of line 357 resolves in this build
    frame,          \* the locals of each running wait helper, per slot
    helper          \* the locals of each waitForSubscriptionDatabasesStatus

vars == <<statusResolves, frame, helper>>

IdleFrame ==
    [pc |-> "idle", kind |-> "none", id |-> 0, expectedStatus |-> "none",
     timeoutInSeconds |-> 0, sleepTimeInSeconds |-> 0,
     timePassedInSeconds |-> 0, resource |-> NoResource, status |-> Undefined,
     fetches |-> 0, sleeps |-> 0, seen |-> <<>>,
     outcome |-> "none", result |-> NoResource, error |-> "none"]

IdleHelper ==
    [pc |-> "idle", expectedStatus |-> "none", timeoutInSeconds |-> 0,
     sleepTimeInSeconds |-> 0, databases |-> <<>>, idx |-> 0,
     listFetches |-> 0, listed |-> "none", settled |-> <<>>,
     outcome |-> "none", error |-> "none"]

Init ==
    /\ statusResolves \in BOOLEAN
    /\ frame = [s \in Slots |-> IdleFrame]
    /\ helper = [c \in Calls |-> IdleHelper]

\* ---------------------------------------------------------------- helpers

SingleKinds == {"subscription", "vpcPeering", "database", "cloudAccount"}

\* The hardcoded status that ends a loop whatever the caller expects:
\* 'error' at lines 324, 372 and 406, 'failed' at line 348.
ErrorSentinel(kind) == IF kind = "vpcPeering" THEN "failed" ELSE "error"

\* The loop test with the timeout tick excluded (< for <=).
LoopConditionExclusive(status, expectedStatus, sentinel, timePassedInSeconds, timeoutInSeconds) ==
    /\ status # expectedStatus
    /\ status # sentinel
    /\ status # Undefined
    /\ timePassedInSeconds < timeoutInSeconds

\* The loop test with '404' hardcoded as one more terminal status.
LoopConditionWith404(status, expectedStatus, sentinel, timePassedInSeconds, timeoutInSeconds) ==
    /\ status # expectedStatus
    /\ status # sentinel
    /\ status # "404"
    /\ status # Undefined
    /\ timePassedInSeconds <= timeoutInSeconds

\* The loop test with one second of grace after the timeout.
LoopConditionOneSecondLate(status, expectedStatus, sentinel, timePassedInSeconds, timeoutInSeconds) ==
    /\ status # expectedStatus
    /\ status # sentinel
    /\ status # Undefined
    /\ timePassedInSeconds <= timeoutInSeconds + 1

\* The while condition of the four loops (lines 324, 348, 372, 406).
LoopCondition(status, expectedStatus, sentinel, timePassedInSeconds, timeoutInSeconds) ==
    /\ status # expectedStatus
    /\ status # sentinel
    /\ status # Undefined
    /\ timePassedInSeconds <= timeoutInSeconds

\* The status the loop of frame f tests: the fetched object's own status,
\* and for a VPC peering the local variable status of line 347.
TestedStatus(f) ==
    IF f.kind = "vpcPeering" THEN f.status ELSE f.resource.status

\* The call of a helper up to its first await: the first fetch is issued and
\* nothing else has happened (lines 322, 343, 370, 404).
StartWait(kind, id, expectedStatus, timeoutInSeconds, sleepTimeInSeconds) ==
    [IdleFrame EXCEPT !.pc = "fetch", !.kind = kind, !.id = id,
                      !.expectedStatus = expectedStatus,
                      !.timeoutInSeconds = timeoutInSeconds,
                      !.sleepTimeInSeconds = sleepTimeInSeconds,
                      !.fetches = 1]

\* The last log line and the return statement (lines 330-331, 357-358,
\* 378-379, 412-413).  Line 357 reads the variable status outside the block
\* of lines 346-356 that declares it (let, line 347).  What the name then
\* denotes depends on the build: a global of the host (a browser's
\* window.status), the hoisted var of a down-levelled build, or nothing, and
\* then evaluating the template of line 357 throws a ReferenceError (Node.js
\* defines no global status) before line 358 is reached.
Return(f, resolves) ==
    IF f.kind = "vpcPeering" /\ ~resolves
    THEN [f EXCEPT !.pc = "done", !.outcome = "rejected", !.error = ReferenceError]
    ELSE [f EXCEPT !.pc = "done", !.outcome = "resolved", !.result = f.resource]

\* The loop test after a fetch and what follows it up to the next await:
\* the sleep is issued (lines 325-326), or the loop is left and the helper
\* returns.
AfterFetch(f, resolves) ==
    IF LoopCondition(TestedStatus(f), f.expectedStatus, ErrorSentinel(f.kind),
                     f.timePassedInSeconds, f.timeoutInSeconds)
    THEN [f EXCEPT !.pc = "sleep", !.sleeps = @ + 1]
    ELSE Return(f, resolves)

\* The rejection caught and handed back as the value of the call.
RejectedSwallowed(f, e) ==
    [f EXCEPT !.seen = Append(@, e),
              !.pc = "done", !.outcome = "resolved", !.result = NoResource]

\* A fetch awaited by a helper rejects: no try/catch surrounds the await, so
\* the helper's own promise rejects with the same error.
Rejected(f, e) ==
    [f EXCEPT !.seen = Append(@, e),
              !.pc = "done", !.outcome = "rejected", !.error = e]

\* getSubscription, getDatabase or getCloudAccount resolves with an object
\* whose status is st (lines 322/328, 370/376, 404/410), and the loop test
\* follows.
Resolved(f, st, resolves) ==
    AfterFetch([f EXCEPT !.resource = Resource(st, f.fetches),
                         !.seen = Append(@, st)], resolves)

\* getVpcPeerings resolves; r is the status of the entry whose id is
\* vpcPeeringId, or "absent" when find() matches no entry.  After the first
\* fetch (lines 343-348) a missing entry skips the loop; inside the loop
\* (lines 352-354) a missing entry leaves the local status as it was, and the
\* loop test follows.
VpcResolved(f, r, resolves) ==
    LET vpcPeering == IF r = "absent" THEN NoResource ELSE Resource(r, f.fetches)
        g == [f EXCEPT !.resource = vpcPeering,
                       !.seen = Append(@, r),
                       !.status = IF vpcPeering.present THEN r ELSE @]
    IN  IF f.fetches = 1 /\ ~vpcPeering.present
        THEN Return(g, resolves)
        ELSE AfterFetch(g, resolves)

\* The time passed counted in iterations, not in seconds.
SleptCountingIterations(f) ==
    [f EXCEPT !.timePassedInSeconds = @ + 1,
              !.fetches = @ + 1,
              !.pc = "fetch"]

\* The sleep time added twice for one sleep.
SleptAddingTwice(f) ==
    [f EXCEPT !.timePassedInSeconds = @ + 2 * f.sleepTimeInSeconds,
              !.fetches = @ + 1,
              !.pc = "fetch"]

\* The sleep is over: timePassedInSeconds += sleepTimeInSeconds and the next
\* fetch is issued (lines 327-328, 351-352, 375-376, 409-410).
Slept(f) ==
    [f EXCEPT !.timePassedInSeconds = @ + f.sleepTimeInSeconds,
              !.fetches = @ + 1,
              !.pc = "fetch"]

\* The time passed kept in a field of the instance, which every running
\* helper adds to and reads.
AdvanceShared(fr, s) ==
    [x \in DOMAIN fr |->
        IF x = s THEN Slept(fr[x])
        ELSE IF fr[x].pc \in {"fetch", "sleep"}
        THEN [fr[x] EXCEPT !.timePassedInSeconds = @ + fr[s].sleepTimeInSeconds]
        ELSE fr[x]]

\* The frames after the sleep of frame s is over: timePassedInSeconds is a
\* local variable (let, lines 323, 345, 371, 405), so only the frame of the
\* invocation that slept changes.
Advance(fr, s) == [fr EXCEPT ![s] = Slept(fr[s])]

\* What the promise of a finished waitForDatabaseStatus carries to the
\* for-loop of waitForSubscriptionDatabasesStatus that awaits it.
Settlement(f) ==
    [outcome |-> f.outcome, status |-> f.result.status, error |-> f.error]

\* Frame s takes the value f.  A top-level helper that has finished keeps its
\* last values; a finished waitForDatabaseStatus run by
\* waitForSubscriptionDatabasesStatus settles the promise line 392 awaits and
\* its locals are gone.
Commit(s, f) ==
    IF s[2] > 0 /\ f.pc = "done"
    THEN /\ frame' = [frame EXCEPT ![s] = IdleFrame]
         /\ helper' = [helper EXCEPT ![s[1]].settled = Append(@, Settlement(f))]
    ELSE /\ frame' = [frame EXCEPT ![s] = f]
         /\ UNCHANGED helper

\* ---------------------------------------------------------------- actions

\* An argument left out of a call (the parameter is undefined): a number
\* that no caller passes stands for it among the numeric arguments, and
\* Undefined among the statuses.
Omitted == -1

\* The default values of the parameters timeoutInSeconds (lines 321, 342,
\* 369, 389, 403, 423), sleepTimeInSeconds (the same lines) and
\* expectedStatus (line 389).
SubscriptionTimeout == 20 * 60
VpcPeeringTimeout == 5 * 60
DatabaseTimeout == 5 * 60
DatabasesTimeoutTwentyMinutes == 20 * 60
DatabasesTimeout == 5 * 60
CloudAccountTimeout == 5 * 60
TaskTimeout == 20 * 60
SleepTime == 5
DatabasesExpectedStatus == "active"

\* A parameter with a default value: the default replaces a missing argument.
Default(arg, value) == IF arg = Omitted THEN value ELSE arg
DefaultStatus(arg, value) == IF arg = Undefined THEN value ELSE arg

NotInvoked(c) ==
    /\ helper[c].pc = "idle"
    /\ \A i \in 0..MaxDatabases : frame[<<c, i>>].pc = "idle"

waitForSubscriptionStatus(c, expectedStatus, timeoutInSeconds, sleepTimeInSeconds) ==
    /\ NotInvoked(c)
    /\ frame' = [frame EXCEPT ![<<c, 0>>] =
                    StartWait("subscription", 1, expectedStatus,
                              Default(timeoutInSeconds, SubscriptionTimeout),
                              Default(sleepTimeInSeconds, SleepTime))]
    /\ UNCHANGED <<statusResolves, helper>>

waitForVpcPeeringStatus(c, expectedStatus, timeoutInSeconds, sleepTimeInSeconds) ==
    /\ NotInvoked(c)
    /\ frame' = [frame EXCEPT ![<<c, 0>>] =
                    StartWait("vpcPeering", 1, expectedStatus,
                              Default(timeoutInSeconds, VpcPeeringTimeout),
                              Default(sleepTimeInSeconds, SleepTime))]
    /\ UNCHANGED <<statusResolves, helper>>

waitForDatabaseStatus(c, expectedStatus, timeoutInSeconds, sleepTimeInSeconds) ==
    /\ NotInvoked(c)
    /\ frame' = [frame EXCEPT ![<<c, 0>>] =
                    StartWait("database", 1, expectedStatus,
                              Default(timeoutInSeconds, DatabaseTimeout),
                              Default(sleepTimeInSeconds, SleepTime))]
    /\ UNCHANGED <<statusResolves, helper>>

waitForCloudAccountStatus(c, expectedStatus, timeoutInSeconds, sleepTimeInSeconds) ==
    /\ NotInvoked(c)
    /\ frame' = [frame EXCEPT ![<<c, 0>>] =
                    StartWait("cloudAccount", 1, expectedStatus,
                              Default(timeoutInSeconds, CloudAccountTimeout),
                              Default(sleepTimeInSeconds, SleepTime))]
    /\ UNCHANGED <<statusResolves, helper>>

\* The getSubscription, getDatabase or getCloudAccount that frame s awaits
\* resolves with status st.
GetResolved(s, st) ==
    /\ frame[s].pc = "fetch"
    /\ frame[s].kind \in {"subscription", "database", "cloudAccount"}
    /\ Commit(s, Resolved(frame[s], st, statusResolves))
    /\ UNCHANGED statusResolves

\* The getVpcPeerings that frame s awaits resolves.
GetVpcPeeringsResolved(s, r) ==
    /\ frame[s].pc = "fetch"
    /\ frame[s].kind = "vpcPeering"
    /\ Commit(s, VpcResolved(frame[s], r, statusResolves))
    /\ UNCHANGED statusResolves

\* The fetch a helper awaits rejects with the Transport error e.
GetRejected(s, e) ==
    /\ frame[s].pc = "fetch"
    /\ Commit(s, Rejected(frame[s], e))
    /\ UNCHANGED statusResolves

\* this.sleep(sleepTimeInSeconds) resolves.
SleepResolved(s) ==
    /\ frame[s].pc = "sleep"
    /\ frame[s].sleepTimeInSeconds = 0 => frame[s].fetches < ZeroIntervalFetches
    /\ frame' = Advance(frame, s)
    /\ UNCHANGED <<statusResolves, helper>>

\* ------------------------------------- waitForSubscriptionDatabasesStatus

\* The lists getDatabases may resolve with: the databases 1..n, by
\* ascending or by descending id.
DatabaseLists ==
    UNION {{[i \in 1..n |-> i], [i \in 1..n |-> n + 1 - i]} : n \in 0..MaxDatabases}

\* Line 389-390: the call up to its first await, getDatabases is issued.
waitForSubscriptionDatabasesStatus(c, expectedStatus, timeoutInSeconds, sleepTimeInSeconds) ==
    /\ NotInvoked(c)
    /\ helper' = [helper EXCEPT ![c] =
                    [IdleHelper EXCEPT !.pc = "list",
                                       !.expectedStatus =
                                           DefaultStatus(expectedStatus, DatabasesExpectedStatus),
                                       !.timeoutInSeconds =
                                           Default(timeoutInSeconds, DatabasesTimeout),
                                       !.sleepTimeInSeconds =
                                           Default(sleepTimeInSeconds, SleepTime),
                                       !.listFetches = 1]]
    /\ UNCHANGED <<statusResolves, frame>>

\* Line 392: waitForDatabaseStatus is called for the i-th listed database
\* with the helper's own expectedStatus, timeout and interval, and runs up to
\* its first await.
StartDatabaseWait(fr, c, h, i) ==
    [fr EXCEPT ![<<c, i>>] =
        StartWait("database", h.databases[i], h.expectedStatus,
                  h.timeoutInSeconds, h.sleepTimeInSeconds)]

\* Line 390 resumes with the list dbs, and the for-loop of line 391 starts.
GetDatabasesResolved(c, dbs) ==
    /\ helper[c].pc = "list"
    /\ IF dbs = <<>>
       THEN /\ helper' = [helper EXCEPT ![c].pc = "done", ![c].outcome = "resolved",
                                        ![c].listed = "resolved"]
            /\ UNCHANGED frame
       ELSE LET h == [helper[c] EXCEPT !.pc = "loop", !.databases = dbs, !.idx = 1,
                                       !.listed = "resolved"]
            IN  /\ helper' = [helper EXCEPT ![c] = h]
                /\ frame' = StartDatabaseWait(frame, c, h, 1)
    /\ UNCHANGED statusResolves

\* getDatabases rejects: the helper rejects with the same error.
GetDatabasesRejected(c, e) ==
    /\ helper[c].pc = "list"
    /\ helper' = [helper EXCEPT ![c].pc = "done", ![c].outcome = "rejected",
                                ![c].error = e, ![c].listed = e]
    /\ UNCHANGED <<statusResolves, frame>>

\* The loop going on without awaiting the wait it started.
NotAwaited(h) == TRUE

\* The await of line 392: the loop goes on only when the promise of the
\* waitForDatabaseStatus it started last has settled.
AwaitedWait(h) == Len(h.settled) = h.idx

\* The for-loop left at the first database whose wait did not end in the
\* expected status.
NextDatabaseStoppingOnFailure(c) ==
    LET h == helper[c] IN
    /\ h.pc = "loop"
    /\ AwaitedWait(h)
    /\ IF h.settled[h.idx].outcome = "rejected"
       THEN /\ helper' = [helper EXCEPT ![c].pc = "done", ![c].outcome = "rejected",
                                        ![c].error = h.settled[h.idx].error]
            /\ UNCHANGED frame
       ELSE IF h.idx < Len(h.databases) /\ h.settled[h.idx].status = h.expectedStatus
       THEN /\ helper' = [helper EXCEPT ![c].idx = h.idx + 1]
            /\ frame' = StartDatabaseWait(frame, c, h, h.idx + 1)
       ELSE /\ helper' = [helper EXCEPT ![c].pc = "done", ![c].outcome = "resolved"]
            /\ UNCHANGED frame
    /\ UNCHANGED statusResolves

\* Line 392 resumes: a rejected wait rejects the helper, otherwise the loop
\* takes the next database or, after the last one, the helper returns
\* (no value).
NextDatabase(c) ==
    LET h == helper[c] IN
    /\ h.pc = "loop"
    /\ AwaitedWait(h)
    /\ IF Len(h.settled) >= h.idx /\ h.settled[h.idx].outcome = "rejected"
       THEN /\ helper' = [helper EXCEPT ![c].pc = "done", ![c].outcome = "rejected",
                                        ![c].error = h.settled[h.idx].error]
            /\ UNCHANGED frame
       ELSE IF h.idx < Len(h.databases)
       THEN /\ helper' = [helper EXCEPT ![c].idx = h.idx + 1]
            /\ frame' = StartDatabaseWait(frame, c, h, h.idx + 1)
       ELSE /\ helper' = [helper EXCEPT ![c].pc = "done", ![c].outcome = "resolved"]
            /\ UNCHANGED frame
    /\ UNCHANGED statusResolves

\* ---------------------------------------------------------- specification

Timeouts == 0..MaxTimeout
Intervals == 0..MaxInterval
VpcResults == Statuses \cup {"absent"}

\* Invocation c is made, with any helper and any arguments.
Invoke(c) ==
    \E e \in ExpectedStatuses, t \in Timeouts, i \in Intervals :
        \/ waitForSubscriptionStatus(c, e, t, i)
        \/ waitForVpcPeeringStatus(c, e, t, i)
        \/ waitForDatabaseStatus(c, e, t, i)
        \/ waitForCloudAccountStatus(c, e, t, i)
        \/ waitForSubscriptionDatabasesStatus(c, e, t, i)

\* Something invocation c awaits settles.
Resume(c) ==
    \/ \E n \in 0..MaxDatabases :
          \/ \E st \in Statuses : GetResolved(<<c, n>>, st)
          \/ \E r \in VpcResults : GetVpcPeeringsResolved(<<c, n>>, r)
          \/ \E e \in TransportErrors : GetRejected(<<c, n>>, e)
          \/ SleepResolved(<<c, n>>)
    \/ \E dbs \in DatabaseLists : GetDatabasesResolved(c, dbs)
    \/ \E e \in TransportErrors : GetDatabasesRejected(c, e)
    \/ NextDatabase(c)

\* One invocation on the instance.
Next == Invoke(1) \/ Resume(1)

Spec == Init /\ [][Next]_vars

\* One invocation of a helper that waits for one resource, whose awaits all
\* settle: a fetch or a sleep that is awaited completes, with some result.
InvokeLive(c) ==
    \E e \in ExpectedStatuses, t \in Timeouts, i \in Intervals :
        \/ waitForSubscriptionStatus(c, e, t, i)
        \/ waitForVpcPeeringStatus(c, e, t, i)
        \/ waitForDatabaseStatus(c, e, t, i)
        \/ waitForCloudAccountStatus(c, e, t, i)

ResumeLive(c) ==
    \/ \E st \in Statuses : GetResolved(<<c, 0>>, st)
    \/ \E r \in VpcResults : GetVpcPeeringsResolved(<<c, 0>>, r)
    \/ \E e \in TransportErrors : GetRejected(<<c, 0>>, e)
    \/ SleepResolved(<<c, 0>>)

NextLive == InvokeLive(1) \/ ResumeLive(1)

SpecLive == Init /\ [][NextLive]_vars /\ WF_vars(ResumeLive(1))

\* Lines 423-425: waitForTaskStatus hands its arguments, defaults applied,
\* to this.task.waitForTaskStatus and awaits it; the loop of the Task accessor
\* is not part of the facade.
waitForTaskStatus(c, expectedStatus, timeoutInSeconds, sleepTimeInSeconds) ==
    /\ NotInvoked(c)
    /\ frame' = [frame EXCEPT ![<<c, 0>>] =
                    [StartWait("task", 1, expectedStatus,
                               Default(timeoutInSeconds, TaskTimeout),
                               Default(sleepTimeInSeconds, SleepTime))
                        EXCEPT !.pc = "delegated", !.fetches = 0]]
    /\ UNCHANGED <<statusResolves, helper>>

\* Line 424 resumes: this.task.waitForTaskStatus resolves with a task whose
\* status is st, which the facade returns.
TaskWaitResolved(s, st) ==
    /\ frame[s].pc = "delegated"
    /\ frame' = [frame EXCEPT ![s].pc = "done", ![s].outcome = "resolved",
                              ![s].resource = Resource(st, 1),
                              ![s].result = Resource(st, 1)]
    /\ UNCHANGED <<statusResolves, helper>>

\* Line 424 resumes with a rejection, which the facade passes on.
TaskWaitRejected(s, e) ==
    /\ frame[s].pc = "delegated"
    /\ frame' = [frame EXCEPT ![s].pc = "done", ![s].outcome = "rejected",
                              ![s].error = e]
    /\ UNCHANGED <<statusResolves, helper>>

\* One invocation that leaves out timeoutInSeconds and sleepTimeInSeconds
\* (and, for waitForSubscriptionDatabasesStatus, expectedStatus).  The remote
\* answers 'pending' or 'active' only, so that a wait of 20 minutes has one
\* run per fetch at which it ends.
DefaultsAnswers == {"pending", "active"}

InvokeDefaults(c) ==
    \/ waitForSubscriptionStatus(c, "active", Omitted, Omitted)
    \/ waitForVpcPeeringStatus(c, "active", Omitted, Omitted)
    \/ waitForDatabaseStatus(c, "active", Omitted, Omitted)
    \/ waitForCloudAccountStatus(c, "active", Omitted, Omitted)
    \/ waitForTaskStatus(c, "active", Omitted, Omitted)
    \/ waitForSubscriptionDatabasesStatus(c, Undefined, Omitted, Omitted)

ResumeDefaults(c) ==
    \/ \E n \in 0..MaxDatabases :
          \/ \E st \in DefaultsAnswers : GetResolved(<<c, n>>, st)
          \/ \E r \in DefaultsAnswers : GetVpcPeeringsResolved(<<c, n>>, r)
          \/ SleepResolved(<<c, n>>)
    \/ \E st \in DefaultsAnswers : TaskWaitResolved(<<c, 0>>, st)
    \/ \E e \in TransportErrors : TaskWaitRejected(<<c, 0>>, e)
    \/ \E dbs \in DatabaseLists : GetDatabasesResolved(c, dbs)
    \/ NextDatabase(c)

NextDefaults == InvokeDefaults(1) \/ ResumeDefaults(1)

SpecDefaults == Init /\ [][NextDefaults]_vars

\* Two invocations interleaved on the instance, each of
\* waitForSubscriptionStatus or waitForVpcPeeringStatus.
PairTimeouts == {0, 1}
PairIntervals == {1}

InvokePair(c) ==
    \E t \in PairTimeouts, i \in PairIntervals :
        \/ waitForSubscriptionStatus(c, "active", t, i)
        \/ waitForVpcPeeringStatus(c, "active", t, i)

ResumePair(c) ==
    \/ \E st \in Statuses : GetResolved(<<c, 0>>, st)
    \/ \E r \in VpcResults : GetVpcPeeringsResolved(<<c, 0>>, r)
    \/ \E e \in TransportErrors : GetRejected(<<c, 0>>, e)
    \/ SleepResolved(<<c, 0>>)

NextPair == \E c \in Calls : InvokePair(c) \/ ResumePair(c)

SpecPair == Init /\ [][NextPair]_vars

\* ------------------------------------------------------------------ claims

\* The frame of the helper that invocation c called.
Top(c) == frame[<<c, 0>>]
Last(seq) == seq[Len(seq)]
ThreeKinds == {"subscription", "database", "cloudAccount"}

\* The helper of frame f has left its loop (or skipped it) and run its last
\* lines: it is over, and not because a fetch rejected.
LoopLeft(f) == f.pc = "done" /\ f.error \notin TransportErrors

\* The latest fetch of frame f has resolved or rejected.
Fetched(f) == f.pc \in {"sleep", "done"} /\ f.seen # <<>>

\* Every fetch of frame f answered the same status, a defined one that is
\* neither the expected status nor the error sentinel of the helper.
Steady(f) ==
    /\ f.seen # <<>>
    /\ \A i \in DOMAIN f.seen : f.seen[i] = f.seen[1]
    /\ f.seen[1] \in Statuses \ {f.expectedStatus, ErrorSentinel(f.kind), Undefined}

\* C1 as stated: with a positive timeout and interval and a steady status, a
\* helper performs exactly floor(timeout / interval) + 1 fetches before it
\* returns.
C1_FloorPlusOneFetches ==
    \A c \in Calls :
        LET f == Top(c) IN
        (LoopLeft(f) /\ Steady(f) /\ f.timeoutInSeconds > 0 /\ f.sleepTimeInSeconds > 0)
        => f.fetches = (f.timeoutInSeconds \div f.sleepTimeInSeconds) + 1

\* C1 amended: with a positive timeout and interval and a steady status, each
\* of the four helpers leaves its loop after exactly
\* floor(timeout / interval) + 2 fetches and floor(timeout / interval) + 1
\* sleeps, with timePassedInSeconds = (floor(timeout / interval) + 1) * interval:
\* the test elapsed <= timeout is made before the sleep, so the tick at the
\* timeout is followed by one more sleep and fetch.
C1_FloorPlusTwoFetches ==
    \A c \in Calls :
        LET f == Top(c)
            n == f.timeoutInSeconds \div f.sleepTimeInSeconds
        IN  (LoopLeft(f) /\ Steady(f) /\ f.timeoutInSeconds > 0 /\ f.sleepTimeInSeconds > 0)
            => /\ f.fetches = n + 2
               /\ f.sleeps = n + 1
               /\ f.timePassedInSeconds = (n + 1) * f.sleepTimeInSeconds

\* The scenario of C1 scaled to seconds 2 and 1 (timeout = 2 intervals): four
\* fetches, at 0, 1, 2 and 3.
C1_Witness ==
    \E c \in Calls :
        LET f == Top(c) IN
        /\ LoopLeft(f) /\ Steady(f)
        /\ f.timeoutInSeconds = 2 /\ f.sleepTimeInSeconds = 1
        /\ f.fetches = 4 /\ f.timePassedInSeconds = 3

\* C2: in waitForVpcPeeringStatus, once the entry was in the first list and
\* is missing from a later one, the loop is over at that point and the call
\* has returned undefined.
C2_VanishedEndsLoop ==
    \A c \in Calls :
        LET f == Top(c) IN
        (/\ f.kind = "vpcPeering"
         /\ Fetched(f)
         /\ Len(f.seen) >= 2
         /\ f.seen[1] # "absent"
         /\ Last(f.seen) = "absent")
        => /\ f.pc = "done"
           /\ f.outcome = "resolved"
           /\ f.result = NoResource
           /\ f.fetches = Len(f.seen)

\* C3: when the first fetch answers the expected status, the call returns
\* that resource after exactly one fetch and no sleep.
C3_ExpectedAtOnce ==
    \A c \in Calls :
        LET f == Top(c) IN
        (f.kind \in SingleKinds /\ Fetched(f) /\ f.seen[1] = f.expectedStatus)
        => /\ f.pc = "done"
           /\ f.outcome = "resolved"
           /\ f.result = Resource(f.expectedStatus, 1)
           /\ f.fetches = 1
           /\ f.sleeps = 0

\* C4: when a fetch answers the error sentinel of the helper, polling is over
\* at once (no further sleep or fetch) and the call has returned the resource
\* of that fetch.
C4_SentinelStops ==
    \A c \in Calls :
        LET f == Top(c) IN
        (f.kind \in SingleKinds /\ Fetched(f) /\ Last(f.seen) = ErrorSentinel(f.kind))
        => /\ f.pc = "done"
           /\ f.outcome = "resolved"
           /\ f.result = Resource(ErrorSentinel(f.kind), Len(f.seen))
           /\ f.fetches = Len(f.seen)
           /\ f.sleeps = Len(f.seen) - 1

\* C5: for subscription, database and cloud account, with k the number of
\* re-fetches made so far: when the k-th re-fetch is the first fetch to answer
\* the expected status, the call has returned that resource after k + 1
\* fetches with timePassedInSeconds = k * interval; and the helper does not
\* give up before a re-fetch k with k * interval <= timeout: when it returns a
\* resource that is neither expected, 'error' nor undefined, the next
\* re-fetch would have come after the timeout.
C5_ExpectedAtKthRefetch ==
    \A c \in Calls :
        LET f == Top(c)
            k == Len(f.seen) - 1
        IN  (f.kind \in ThreeKinds /\ Fetched(f) /\ Last(f.seen) \in Statuses)
            => /\ Last(f.seen) = f.expectedStatus
                  => /\ f.pc = "done"
                     /\ f.outcome = "resolved"
                     /\ f.result = Resource(f.expectedStatus, k + 1)
                     /\ f.fetches = k + 1
                     /\ f.timePassedInSeconds = k * f.sleepTimeInSeconds
               /\ (f.pc = "done" /\ Last(f.seen) \notin {f.expectedStatus, "error", Undefined})
                  => (k + 1) * f.sleepTimeInSeconds > f.timeoutInSeconds

\* The scenario of C5 scaled to seconds 2 and 1: [pending, pending, active]
\* returns the active resource after 3 fetches with 2 seconds passed.
C5_Witness ==
    \E c \in Calls :
        LET f == Top(c) IN
        /\ f.kind \in ThreeKinds
        /\ f.pc = "done" /\ f.outcome = "resolved"
        /\ f.seen = <<"pending", "pending", "active">>
        /\ f.expectedStatus = "active"
        /\ f.timeoutInSeconds = 2 /\ f.sleepTimeInSeconds = 1
        /\ f.result.status = "active" /\ f.fetches = 3 /\ f.timePassedInSeconds = 2

\* The inner waits of invocation c that are running.
Live(c) == {i \in 1..MaxDatabases : frame[<<c, i>>].pc # "idle"}

\* C6: waitForSubscriptionDatabasesStatus never has the waits of two
\* databases in flight; the wait in flight is the one of the idx-th listed
\* database, in list order, and every fetch and sleep of it happens after the
\* waits of all databases listed before it have returned.
C6_OneDatabaseAtATime ==
    \A c \in Calls :
        LET h == helper[c] IN
        /\ Cardinality(Live(c)) <= 1
        /\ \A i \in Live(c) :
              /\ h.pc = "loop"
              /\ i = h.idx
              /\ i <= Len(h.databases)
              /\ frame[<<c, i>>].id = h.databases[i]
              /\ Len(h.settled) = i - 1

\* The list is [2, 1]: the wait of database 1, listed second, is sleeping
\* after a fetch, and the wait of database 2 has returned.
C6_Witness ==
    \E c \in Calls :
        /\ helper[c].databases = <<2, 1>>
        /\ frame[<<c, 2>>].pc = "sleep"
        /\ frame[<<c, 2>>].id = 1
        /\ Len(helper[c].settled) = 1
        /\ helper[c].settled[1].outcome = "resolved"

\* C7 as stated: for subscription, database and cloud account a fetched
\* status '404' ends the loop whatever the expected status.
C7_404AlwaysStops ==
    \A c \in Calls :
        LET f == Top(c) IN
        (f.kind \in ThreeKinds /\ Fetched(f) /\ Last(f.seen) = "404")
        => f.pc = "done"

\* C7 amended: for subscription, database and cloud account a fetched status
\* '404' ends the loop exactly when the caller expects '404' or the time
\* passed exceeds the timeout; with another expected status the helper sleeps
\* and fetches again.
C7_404StopsOnlyWhenExpected ==
    \A c \in Calls :
        LET f == Top(c) IN
        (f.kind \in ThreeKinds /\ Fetched(f) /\ Last(f.seen) = "404")
        => (f.pc = "done" <=>
              (f.expectedStatus = "404" \/ f.timePassedInSeconds > f.timeoutInSeconds))

\* A '404' was fetched while 'active' is expected, and the helper sleeps.
C7_Witness ==
    \E c \in Calls :
        LET f == Top(c) IN
        /\ f.kind \in ThreeKinds
        /\ f.pc = "sleep"
        /\ f.expectedStatus = "active"
        /\ Last(f.seen) = "404"

\* C8: when a loop ends because the time passed exceeds the timeout (the
\* status tested last is neither expected nor the sentinel nor undefined), the
\* call resolves, and for subscription, database and cloud account with the
\* resource of the final fetch.
C8_TimeoutResolves ==
    \A c \in Calls :
        LET f == Top(c) IN
        (/\ f.kind \in SingleKinds
         /\ LoopLeft(f)
         /\ f.timePassedInSeconds > f.timeoutInSeconds
         /\ TestedStatus(f) \notin {f.expectedStatus, ErrorSentinel(f.kind), Undefined})
        => /\ f.outcome = "resolved"
           /\ f.kind \in ThreeKinds => f.result = Resource(Last(f.seen), f.fetches)

\* C9: a fetch that rejects with a Transport error ends the helper at once,
\* rejected with that same error, with no further fetch or sleep; in
\* waitForSubscriptionDatabasesStatus a rejected getDatabases starts no wait,
\* and a rejected wait is the last one: the helper rejects with its error and
\* the databases listed after it are never waited for.
C9_TransportErrorPropagates ==
    \A c \in Calls :
        LET f == Top(c)
            h == helper[c]
        IN  /\ (f.seen # <<>> /\ Last(f.seen) \in TransportErrors)
               => /\ f.pc = "done"
                  /\ f.outcome = "rejected"
                  /\ f.error = Last(f.seen)
                  /\ f.fetches = Len(f.seen)
                  /\ f.sleeps = Len(f.seen) - 1
            /\ h.listed \in TransportErrors
               => /\ h.pc = "done" /\ h.outcome = "rejected" /\ h.error = h.listed
                  /\ h.listFetches = 1 /\ h.idx = 0 /\ Live(c) = {}
            /\ \A i \in DOMAIN h.settled :
                  h.settled[i].outcome = "rejected"
                  => /\ h.settled[i].error \in TransportErrors
                     /\ i = Len(h.settled) /\ i = h.idx /\ Live(c) = {}
                     /\ \/ h.pc = "loop"
                        \/ /\ h.pc = "done" /\ h.outcome = "rejected"
                           /\ h.error = h.settled[i].error
            /\ (h.pc = "done" /\ h.outcome = "rejected")
               => \/ h.listed \in TransportErrors
                  \/ /\ h.settled # <<>>
                     /\ Last(h.settled).outcome = "rejected"
                     /\ Last(h.settled).error = h.error

\* Of two listed databases the wait of the first was rejected with E500: the
\* helper has rejected with E500 and never started the second wait.
C9_Witness ==
    \E c \in Calls :
        LET h == helper[c] IN
        /\ h.pc = "done" /\ h.outcome = "rejected" /\ h.error = "E500"
        /\ Len(h.databases) = 2 /\ h.idx = 1
        /\ Len(h.settled) = 1 /\ h.settled[1].error = "E500"

\* A helper run alone from frame f against the fetch results given: each
\* result is consumed, and between two results the helper sleeps.
RECURSIVE Replay(_, _, _)
Replay(f, results, resolves) ==
    IF results = <<>> THEN f
    ELSE LET r == Head(results)
             g == IF r \in TransportErrors THEN Rejected(f, r)
                  ELSE IF f.kind = "vpcPeering" THEN VpcResolved(f, r, resolves)
                  ELSE Resolved(f, r, resolves)
         IN  IF Tail(results) = <<>> THEN g
             ELSE Replay(Slept(g), Tail(results), resolves)

\* What the invocation of frame f has when run alone against the fetch
\* results that f has received.
RunAlone(f, resolves) ==
    LET start == StartWait(f.kind, f.id, f.expectedStatus,
                           f.timeoutInSeconds, f.sleepTimeInSeconds)
        g == Replay(start, f.seen, resolves)
    IN  IF f.pc = "fetch" /\ f.seen # <<>> THEN Slept(g) ELSE g

\* C10: under every interleaving of two invocations, the time passed, the
\* fetch and sleep counts, the outcome and the returned value of each are
\* those of the same helper run alone against the fetch results it received.
C10_NoSharedState ==
    \A c \in Calls :
        LET f == Top(c)
            a == RunAlone(f, statusResolves)
        IN  f.pc # "idle"
            => /\ f.timePassedInSeconds = a.timePassedInSeconds
               /\ f.fetches = a.fetches
               /\ f.sleeps = a.sleeps
               /\ f.pc = a.pc
               /\ f.outcome = a.outcome
               /\ f.result = a.result
               /\ f.error = a.error

\* Both invocations are in their loops at once, at different times passed:
\* the first has slept and fetched again, the second then made its first fetch
\* and sleeps.
C10_Witness ==
    /\ Top(1).pc = "sleep" /\ Top(1).timePassedInSeconds = 1 /\ Top(1).fetches = 2
    /\ Top(2).pc = "sleep" /\ Top(2).timePassedInSeconds = 0 /\ Top(2).fetches = 1

\* C11: a fetch that answers an undefined status ends the loop at once and
\* the call has returned that resource, with no further sleep or fetch; and
\* after any fetch the helper goes on to sleep and fetch again exactly when
\* the status is not the expected one, is not the error sentinel, is defined,
\* and the time passed is at most the timeout.
C11_UndefinedStopsAndLoopIff ==
    \A c \in Calls :
        LET f == Top(c) IN
        (f.kind \in SingleKinds /\ Fetched(f) /\ Last(f.seen) \notin TransportErrors)
        => /\ Last(f.seen) = Undefined
              => /\ f.pc = "done"
                 /\ f.outcome = "resolved"
                 /\ f.result = Resource(Undefined, Len(f.seen))
                 /\ f.fetches = Len(f.seen)
                 /\ f.sleeps = Len(f.seen) - 1
           /\ f.pc = "sleep"
              <=> /\ TestedStatus(f) # f.expectedStatus
                  /\ TestedStatus(f) # ErrorSentinel(f.kind)
                  /\ TestedStatus(f) # Undefined
                  /\ f.timePassedInSeconds <= f.timeoutInSeconds

\* Frame f, about to make fetch number lo, after the fetches lo..hi have
\* answered results[lo..hi], with the sleep between two fetches taken.  The
\* range is halved so that a run of hundreds of fetches nests only a few deep;
\* a frame that is done receives nothing more.
RECURSIVE ReplayRange(_, _, _, _, _)
ReplayRange(f, results, lo, hi, resolves) ==
    IF lo = hi
    THEN LET r == results[lo]
             g == IF r \in TransportErrors THEN Rejected(f, r)
                  ELSE IF f.kind = "vpcPeering" THEN VpcResolved(f, r, resolves)
                  ELSE Resolved(f, r, resolves)
         IN  IF lo = Len(results) THEN g ELSE Slept(g)
    ELSE LET mid == (lo + hi) \div 2
             first == ReplayRange(f, results, lo, mid, resolves)
         IN  IF first.pc = "done" THEN first
             ELSE ReplayRange(first, results, mid + 1, hi, resolves)

\* What a wait of the kind and id of frame f has when it is invoked with the
\* explicit arguments given and receives the fetch results that f has received.
RunExplicit(f, expectedStatus, timeoutInSeconds, sleepTimeInSeconds, resolves) ==
    LET start == StartWait(f.kind, f.id, expectedStatus,
                           timeoutInSeconds, sleepTimeInSeconds)
        g == IF f.seen = <<>> THEN start
             ELSE ReplayRange(start, f.seen, 1, Len(f.seen), resolves)
    IN  IF f.pc = "fetch" /\ f.seen # <<>> THEN Slept(g) ELSE g

SameRun(f, a) ==
    /\ f.expectedStatus = a.expectedStatus
    /\ f.timeoutInSeconds = a.timeoutInSeconds
    /\ f.sleepTimeInSeconds = a.sleepTimeInSeconds
    /\ f.timePassedInSeconds = a.timePassedInSeconds
    /\ f.fetches = a.fetches
    /\ f.sleeps = a.sleeps
    /\ f.pc = a.pc
    /\ f.outcome = a.outcome
    /\ f.result = a.result
    /\ f.error = a.error

ExplicitTimeout(kind) == IF kind = "subscription" THEN 1200 ELSE 300

\* C12: a helper called without timeoutInSeconds and sleepTimeInSeconds runs
\* as the same helper called with the explicit values 1200 and 5
\* (subscription), 300 and 5 (VPC peering, database, cloud account) and hands
\* 1200 and 5 to the task accessor; waitForSubscriptionDatabasesStatus called
\* without them and without expectedStatus runs each database wait as one
\* called with 'active', 300 and 5.
C12_DefaultsAsExplicit ==
    \A c \in Calls :
        LET f == Top(c) IN
        /\ (f.kind \in SingleKinds /\ f.pc # "idle")
           => SameRun(f, RunExplicit(f, f.expectedStatus, ExplicitTimeout(f.kind),
                                     5, statusResolves))
        /\ f.kind = "task"
           => f.timeoutInSeconds = 1200 /\ f.sleepTimeInSeconds = 5
        /\ helper[c].pc # "idle"
           => /\ helper[c].expectedStatus = "active"
              /\ helper[c].timeoutInSeconds = 300
              /\ helper[c].sleepTimeInSeconds = 5
              /\ \A n \in Live(c) :
                    SameRun(frame[<<c, n>>],
                            RunExplicit(frame[<<c, n>>], "active", 300, 5,
                                        statusResolves))

\* A subscription wait called without a timeout and interval has run out of
\* its twenty minutes: 242 fetches five seconds apart.
C12_Witness ==
    /\ Top(1).kind = "subscription" /\ Top(1).pc = "done"
    /\ Top(1).outcome = "resolved" /\ Top(1).result.status = "pending"
    /\ Top(1).fetches = 242 /\ Top(1).timePassedInSeconds = 1205

\* The sleeps of frame f that are over.
SleepsOver(f) == IF f.pc = "sleep" THEN f.sleeps - 1 ELSE f.sleeps

\* C13: in the subscription, database and cloud account helpers fetches and
\* sleeps alternate, a fetch first: whenever the loop condition has been
\* checked the fetches made are the sleeps made plus one, and a sleep is only
\* under way after the fetch before it; the time passed is the sleep interval
\* times the sleeps that are over; a call that has left its loop has a time
\* passed of at most timeout plus interval, and it returns with the status
\* expected, with 'error', with an undefined status, or with the time passed
\* above the timeout.
C13_AlternationAndExit ==
    \A s \in Slots :
        LET f == frame[s] IN
        (f.kind \in ThreeKinds /\ f.pc # "idle")
        => /\ f.fetches = SleepsOver(f) + 1
           /\ f.pc = "sleep" => f.sleeps = f.fetches
           /\ f.pc = "done" => f.sleeps = f.fetches - 1
           /\ Len(f.seen) = (IF f.pc = "fetch" THEN f.fetches - 1 ELSE f.fetches)
           /\ f.timePassedInSeconds = f.sleepTimeInSeconds * SleepsOver(f)
           /\ LoopLeft(f)
              => /\ f.outcome = "resolved"
                 /\ f.timePassedInSeconds <= f.timeoutInSeconds + f.sleepTimeInSeconds
                 /\ \/ f.result.status = f.expectedStatus
                    \/ f.result.status = "error"
                    \/ f.result.status = Undefined
                    \/ f.timePassedInSeconds > f.timeoutInSeconds

\* A subscription wait with interval 2 and timeout 2 has returned after two
\* sleeps and three fetches on a status still pending: the time passed, 4, is
\* the timeout plus the interval.
C13_Witness ==
    /\ Top(1).kind = "subscription" /\ LoopLeft(Top(1))
    /\ Top(1).sleepTimeInSeconds = 2 /\ Top(1).timeoutInSeconds = 2
    /\ Top(1).fetches = 3 /\ Top(1).sleeps = 2
    /\ Top(1).timePassedInSeconds = 4
    /\ Top(1).result.status = "pending"

\* Frame f is in its loop: a fetch or a sleep is awaited.
InLoop(f) == f.kind \in SingleKinds /\ f.pc \in {"fetch", "sleep"}

\* C14: when every awaited fetch and sleep completes, a wait loop whose
\* interval is positive ends, whatever the statuses fetched, and it has made
\* at most floor(timeout / interval) + 2 fetches; a loop whose interval is 0
\* keeps its time passed at 0 and is left only on a status that is the
\* expected one, the error sentinel or undefined, so that on a status that
\* stays defined and is neither it is never left.
C14_LoopsTerminate ==
    /\ [](\A s \in Slots :
            LET f == frame[s] IN
            f.kind \in SingleKinds
            => /\ f.sleepTimeInSeconds > 0
                  => f.fetches <= (f.timeoutInSeconds \div f.sleepTimeInSeconds) + 2
               /\ f.sleepTimeInSeconds = 0
                  => /\ f.timePassedInSeconds = 0
                     /\ LoopLeft(f)
                        => TestedStatus(f) \in {f.expectedStatus,
                                                ErrorSentinel(f.kind), Undefined})
    /\ \A s \in Slots :
          (InLoop(frame[s]) /\ frame[s].sleepTimeInSeconds > 0) ~> ~InLoop(frame[s])

\* A VPC peering wait with interval 1 and timeout 2 has left its loop after
\* floor(2 / 1) + 2 = 4 fetches.
C14_Witness ==
    /\ Top(1).kind = "vpcPeering" /\ LoopLeft(Top(1))
    /\ Top(1).sleepTimeInSeconds = 1 /\ Top(1).timeoutInSeconds = 2
    /\ Top(1).fetches = 4 /\ Top(1).timePassedInSeconds = 3

\* C15: waitForSubscriptionDatabasesStatus fetches the database list once,
\* and before any fetch of a database; each listed database is waited for
\* with the helper's expected status, timeout and interval and a time passed
\* of its own that starts at 0; a wait that ends in 'error', in an undefined
\* status or by timeout does not end the helper, which resolves (with no
\* value) only when every listed database has been waited for, and rejects
\* only when the list fetch or a wait rejects.
C15_EachDatabaseItsOwnBudget ==
    \A c \in Calls :
        LET h == helper[c] IN
        /\ h.listFetches = (IF h.pc = "idle" THEN 0 ELSE 1)
        /\ (Live(c) # {} \/ h.settled # <<>>)
           => h.listed = "resolved" /\ h.listFetches = 1
        /\ \A i \in Live(c) :
              LET f == frame[<<c, i>>] IN
              /\ f.kind = "database" /\ f.id = h.databases[i]
              /\ f.expectedStatus = h.expectedStatus
              /\ f.timeoutInSeconds = h.timeoutInSeconds
              /\ f.sleepTimeInSeconds = h.sleepTimeInSeconds
              /\ f.timePassedInSeconds = f.sleepTimeInSeconds * SleepsOver(f)
              /\ f.fetches = 1 => f.timePassedInSeconds = 0
        /\ h.pc = "loop"
           => /\ h.idx \in 1..Len(h.databases)
              /\ Len(h.settled) \in {h.idx - 1, h.idx}
              /\ \A k \in 1..(h.idx - 1) : h.settled[k].outcome = "resolved"
        /\ (h.pc = "done" /\ h.outcome = "resolved")
           => /\ h.listed = "resolved"
              /\ Len(h.settled) = Len(h.databases)
              /\ \A k \in 1..Len(h.settled) : h.settled[k].outcome = "resolved"
        /\ (h.pc = "done" /\ h.outcome = "rejected")
           => \/ h.listed \in TransportErrors /\ h.error = h.listed
              \/ /\ h.settled # <<>>
                 /\ Last(h.settled).outcome = "rejected"
                 /\ Last(h.settled).error \in TransportErrors
                 /\ h.error = Last(h.settled).error

\* The list is [1, 2]: the wait of database 1 ended in 'error', the wait of
\* database 2 then ran and ended still pending, and the helper has resolved.
C15_Witness ==
    /\ helper[1].pc = "done" /\ helper[1].outcome = "resolved"
    /\ helper[1].expectedStatus = "active"
    /\ helper[1].databases = <<1, 2>>
    /\ Len(helper[1].settled) = 2
    /\ helper[1].settled[1].status = "error"
    /\ helper[1].settled[2].status = "pending"

====
